---- MODULE Spec2Model ----
(***************************************************************************)
(* weathr: the weather state (src/src/app_state.rs), the airplane particle *)
(* system (src/src/animation/airplanes.rs), the frame loop                 *)
(* (src/src/app.rs, src/src/main.rs), the layout of the static scene       *)
(* (src/src/scene/) and the coordinates of the Config (src/src/config.rs). *)
(*                                                                         *)
(* Positions and speeds of planes are f32 in the source; the model keeps   *)
(* them as integers counted in tenths of a column (x = 12 is 1.2).         *)
(***************************************************************************)
EXTENDS Integers, Sequences, FiniteSets, TLC

VARIABLES
    \* App.state: the AppState (app_state.rs:4-12), a record of its fields
    state,
    \* AirplaneSystem (airplanes.rs:13-18)
    planes, terminal_width, terminal_height, spawn_cooldown,
    \* the values drawn and the outcome of the last AirplaneSystem::update
    air_call,
    \* history: the update calls completed since the one that last spawned a
    \* plane, counted up to CooldownBase (its value before any spawn)
    updates_since_spawn,
    \* the main thread: its position in main and App::run, the result of run,
    \* whether renderer.cleanup was called, the draw calls of this iteration
    pc, run_result, cleanup_called, exit_status, frame_ops,
    \* the call of this run on which the terminal reported a failure, if any
    term_error,
    \* TerminalRenderer's size and WorldScene's width and height
    renderer_size, scene_size,
    \* the weather channel, the fetch task's position and the result it holds
    channel, fetch_pc, fetch_result,
    \* the ctrl_c branch of main's select!
    ctrl_c,
    \* the rain and snow intensities the AnimationManager holds
    intensities,
    \* what the last WorldScene::render computed (scene/mod.rs:38-74), if any
    layout,
    \* a Config (config.rs:22-31), the process environment, and the last call
    \* made on the Config with the value it had before and the result
    config, env, config_call,
    \* detect_location_with_retry (geolocation.rs:32-60): its position, its
    \* locals, and the fetch outcomes and sleeps it has gone through
    geo,
    \* onboard::run (onboard.rs:446-569): its position, its config, the config
    \* file on disk, and the prompts answered and saves made so far
    wizard

airVars ==
    <<planes, terminal_width, terminal_height, spawn_cooldown, air_call,
      updates_since_spawn>>
mainVars ==
    <<pc, run_result, cleanup_called, exit_status, frame_ops, term_error>>
sizeVars == <<renderer_size, scene_size>>
fetchVars == <<channel, fetch_pc, fetch_result>>
animVars == <<intensities>>
appVars == <<mainVars, sizeVars, fetchVars, ctrl_c, animVars>>
sceneVars == <<layout>>
configVars == <<config, env, config_call>>
toolVars == <<geo, wizard>>
vars == <<state, airVars, appVars, sceneVars, configVars, toolVars>>

\* Option<T>: None is the empty sequence, Some(v) the sequence of v alone
None == <<>>
Some(v) == <<v>>
Unwrap(o) == o[1]

\* the largest u16
U16Max == 65535

(***************************************************************************)
(* Weather values                                                          *)
(***************************************************************************)
WeatherCondition ==
    {"Clear", "Cloudy", "PartlyCloudy", "Overcast", "Fog", "Drizzle",
     "FreezingRain", "Rain", "Snow", "SnowGrains", "RainShowers",
     "SnowShowers", "Thunderstorm", "ThunderstormHail"}

\* WeatherCondition::is_thunderstorm, is_snowing, is_raining, is_cloudy
CondIsThunderstorm(c) == c \in {"Thunderstorm", "ThunderstormHail"}
CondIsSnowing(c) == c \in {"Snow", "SnowGrains", "SnowShowers"}
CondIsRaining(c) ==
    c \in {"Drizzle", "Rain", "RainShowers", "FreezingRain",
           "Thunderstorm", "ThunderstormHail"}
CondIsCloudy(c) == c \in {"Cloudy", "PartlyCloudy", "Overcast"}

\* the temperatures a WeatherData value carries in the model
Temperatures == {10, 20}

WeatherData ==
    [condition : WeatherCondition, is_day : BOOLEAN, temperature : Temperatures]

\* the error strings a fetch can end with
FetchErrors == {"timeout", "http"}

WeatherConditionsDefault ==
    [is_raining |-> FALSE, is_snowing |-> FALSE, is_thunderstorm |-> FALSE,
     is_cloudy |-> FALSE, is_day |-> TRUE]

LoadingChars == <<"|", "/", "-", "\\">>

(***************************************************************************)
(* AppState: each method maps the AppState st to the AppState it leaves    *)
(***************************************************************************)
AppStateNew ==
    [current_weather |-> None,
     weather_error |-> None,
     weather_conditions |-> WeatherConditionsDefault,
     loading_frame |-> 0,
     cached_weather_info |-> <<>>,
     weather_info_needs_update |-> TRUE]

\* update_weather with the thunderstorm precedence left out of is_raining
update_weather_rain_kept(st, weather) ==
    [st EXCEPT
        !.weather_conditions =
            [is_thunderstorm |-> CondIsThunderstorm(weather.condition),
             is_snowing |-> CondIsSnowing(weather.condition),
             is_raining |-> CondIsRaining(weather.condition),
             is_cloudy |-> CondIsCloudy(weather.condition),
             is_day |-> weather.is_day],
        !.current_weather = Some(weather),
        !.weather_error = None,
        !.weather_info_needs_update = TRUE]

update_weather(st, weather) ==
    LET thunder == CondIsThunderstorm(weather.condition) IN
    [st EXCEPT
        !.weather_conditions =
            [is_thunderstorm |-> thunder,
             is_snowing |-> CondIsSnowing(weather.condition),
             is_raining |-> CondIsRaining(weather.condition) /\ ~thunder,
             is_cloudy |-> CondIsCloudy(weather.condition),
             is_day |-> weather.is_day],
        !.current_weather = Some(weather),
        !.weather_error = None,
        !.weather_info_needs_update = TRUE]

\* set_weather_error that also drops the weather data
set_weather_error_drops_weather(st, error) ==
    [st EXCEPT !.weather_error = Some(error),
               !.current_weather = None,
               !.weather_info_needs_update = TRUE]

set_weather_error(st, error) ==
    [st EXCEPT !.weather_error = Some(error),
               !.weather_info_needs_update = TRUE]

\* should_update() compares the time since the last frame change with
\* 100 ms; the clock is outside the model and `elapsed` is the outcome
update_loading_animation(st, elapsed) ==
    IF elapsed
    THEN [st EXCEPT !.loading_frame = (st.loading_frame + 1) % Len(LoadingChars),
                    !.weather_info_needs_update = TRUE]
    ELSE st

get_condition_text(st) ==
    IF st.current_weather = None THEN "Loading"
    ELSE LET c == Unwrap(st.current_weather).condition IN
         CASE c = "PartlyCloudy" -> "Partly Cloudy"
           [] c = "FreezingRain" -> "Freezing Rain"
           [] c = "SnowGrains" -> "Snow Grains"
           [] c = "RainShowers" -> "Rain Showers"
           [] c = "SnowShowers" -> "Snow Showers"
           [] c = "ThunderstormHail" -> "Thunderstorm with Hail"
           [] OTHER -> c

\* the text chosen with the weather data first and the error second
CachedInfoTextWeatherFirst(st) ==
    IF st.current_weather # None
    THEN <<"Weather: ", get_condition_text(st), " | Temp: ",
           Unwrap(st.current_weather).temperature>>
    ELSE IF st.weather_error # None THEN <<Unwrap(st.weather_error)>>
         ELSE <<"Weather: Loading... ", LoadingChars[st.loading_frame + 1]>>

\* the text update_cached_info formats, as the sequence of its parts; the
\* location and the quit hint end every text alike and are left out
CachedInfoText(st) ==
    IF st.weather_error # None THEN <<Unwrap(st.weather_error)>>
    ELSE IF st.current_weather # None
         THEN <<"Weather: ", get_condition_text(st), " | Temp: ",
                Unwrap(st.current_weather).temperature>>
         ELSE <<"Weather: Loading... ", LoadingChars[st.loading_frame + 1]>>

update_cached_info(st) ==
    IF ~st.weather_info_needs_update
    THEN st
    ELSE [st EXCEPT !.cached_weather_info = CachedInfoText(st),
                    !.weather_info_needs_update = FALSE]

\* the conditions under which the sun and the fireflies are drawn
SunnyConditions == {"Clear", "PartlyCloudy"}
FireflyMinTemperature == 15

should_show_sun_ignores_day(st) ==
    IF st.current_weather # None
    THEN Unwrap(st.current_weather).condition \in SunnyConditions
    ELSE FALSE

should_show_sun_default_clear(st) ==
    IF ~st.weather_conditions.is_day THEN FALSE
    ELSE IF st.current_weather # None
         THEN Unwrap(st.current_weather).condition \in SunnyConditions
         ELSE TRUE

should_show_sun(st) ==
    IF ~st.weather_conditions.is_day THEN FALSE
    ELSE IF st.current_weather # None
         THEN Unwrap(st.current_weather).condition \in SunnyConditions
         ELSE FALSE

should_show_fireflies_ignores_day(st) ==
    IF st.current_weather # None
    THEN LET weather == Unwrap(st.current_weather)
         IN  /\ weather.temperature > FireflyMinTemperature
             /\ weather.condition \in SunnyConditions
             /\ ~st.weather_conditions.is_raining
             /\ ~st.weather_conditions.is_thunderstorm
             /\ ~st.weather_conditions.is_snowing
    ELSE FALSE

should_show_fireflies(st) ==
    IF st.weather_conditions.is_day THEN FALSE
    ELSE IF st.current_weather # None
         THEN LET weather == Unwrap(st.current_weather)
              IN  /\ weather.temperature > FireflyMinTemperature
                  /\ weather.condition \in SunnyConditions
                  /\ ~st.weather_conditions.is_raining
                  /\ ~st.weather_conditions.is_thunderstorm
                  /\ ~st.weather_conditions.is_snowing
         ELSE FALSE

(***************************************************************************)
(* AirplaneSystem                                                          *)
(***************************************************************************)
\* x and speed are counted in tenths of a column
Tenths == 10
TrailCapacity == 8
SpawnThreshold == 3          \* 0.003, in thousandths
CooldownBase == 400
CooldownSpan == 200
SpeedBase == 3               \* 0.3
SpeedSpan == 2               \* 0.2

\* terminal sizes update is called with
MaxAirWidth == 121
MaxAirHeight == 16
AirWidths == {0, 3, MaxAirWidth}
AirHeights == {0, 3, MaxAirHeight}

\* values of rand::random::<u16>() and of rand::random::<f32>() (the latter
\* in thousandths for the spawn draw, in tenths for the speed draw)
RandU16 == {0, 399, 65535}
RandSpawn == {2, 3}
RandSpeed == {0, 5}

AirplaneSystemNew(width, height) ==
    /\ planes = <<>>
    /\ terminal_width = width
    /\ terminal_height = height
    /\ spawn_cooldown = 0
    /\ updates_since_spawn = CooldownBase

\* MovePlane with the truncate left out
MovePlaneNoTruncate(p) ==
    LET x == p.x + p.speed IN
    [p EXCEPT !.x = x, !.trail_positions = <<x>> \o p.trail_positions]

MovePlaneDescends(p) ==
    LET x == p.x + p.speed
        trail == <<x>> \o p.trail_positions
    IN [p EXCEPT !.x = x,
                 !.y = p.y + 1,
                 !.trail_positions =
                     IF Len(trail) > TrailCapacity
                     THEN SubSeq(trail, 1, TrailCapacity) ELSE trail]

\* the loop body of update for one plane: advance x, push x on the trail
MovePlane(p) ==
    LET x == p.x + p.speed
        trail == <<x>> \o p.trail_positions
    IN [p EXCEPT !.x = x,
                 !.trail_positions =
                     IF Len(trail) > TrailCapacity
                     THEN SubSeq(trail, 1, TrailCapacity) ELSE trail]

MovePlanes(ps) == [i \in 1..Len(ps) |-> MovePlane(ps[i])]

RetainedAlways(p, width) == p.x >= 0

\* the predicate of planes.retain
Retained(p, width) == p.x < width * Tenths

RetainPlanes(ps, width) == SelectSeq(ps, LAMBDA p : Retained(p, width))

SaturatingSubWraps(a, b) == (a - b) % (U16Max + 1)

SaturatingSub(a, b) == IF a >= b THEN a - b ELSE 0

\* spawn_plane divides by terminal_height / 4: a remainder by zero panics
SpawnPanics(height) == height \div 4 = 0

SpawnedPlane(height, ry, rs) ==
    [x |-> 0,
     y |-> ry % (height \div 4),
     speed |-> SpeedBase + (rs * SpeedSpan) \div Tenths,
     trail_positions |-> <<>>]

\* the spawn condition of update, on the decremented cooldown
SpawnDue(cooldown, rp) == cooldown = 0 /\ rp < SpawnThreshold

\* the part of update before the spawn decision: sizes stored, planes moved
\* and culled
UpdateMoves(width, height) ==
    /\ terminal_width' = width
    /\ terminal_height' = height

KeptPlanes(width) == RetainPlanes(MovePlanes(planes), width)

\* one more update call without a spawn
CountedUpdate(n) == IF n < CooldownBase THEN n + 1 ELSE CooldownBase

\* update when the cooldown has not run out, or the spawn draw rp (made only
\* when the cooldown is 0) is not below the threshold
UpdateNoSpawn(width, height, rp) ==
    LET cooldown == SaturatingSub(spawn_cooldown, 1) IN
    /\ ~air_call.panicked
    /\ ~SpawnDue(cooldown, rp)
    /\ UpdateMoves(width, height)
    /\ planes' = KeptPlanes(width)
    /\ spawn_cooldown' = cooldown
    /\ updates_since_spawn' = CountedUpdate(updates_since_spawn)
    /\ air_call' = [op |-> "update", cooldown |-> cooldown, draw |-> rp,
                    panicked |-> FALSE]

UpdateSpawnShortCooldown(width, height, rp, ry, rs, rc) ==
    LET cooldown == SaturatingSub(spawn_cooldown, 1) IN
    /\ ~air_call.panicked
    /\ SpawnDue(cooldown, rp)
    /\ ~SpawnPanics(height)
    /\ UpdateMoves(width, height)
    /\ planes' = Append(KeptPlanes(width), SpawnedPlane(height, ry, rs))
    /\ spawn_cooldown' = rc % CooldownSpan
    /\ updates_since_spawn' = 0
    /\ air_call' = [op |-> "update", cooldown |-> cooldown, draw |-> rp,
                    panicked |-> FALSE]

\* update when a spawn is due; ry, rs, rc are the draws of spawn_plane and of
\* the new cooldown
UpdateSpawn(width, height, rp, ry, rs, rc) ==
    LET cooldown == SaturatingSub(spawn_cooldown, 1) IN
    /\ ~air_call.panicked
    /\ SpawnDue(cooldown, rp)
    /\ ~SpawnPanics(height)
    /\ UpdateMoves(width, height)
    /\ planes' = Append(KeptPlanes(width), SpawnedPlane(height, ry, rs))
    /\ spawn_cooldown' = CooldownBase + (rc % CooldownSpan)
    /\ updates_since_spawn' = 0
    /\ air_call' = [op |-> "update", cooldown |-> cooldown, draw |-> rp,
                    panicked |-> FALSE]

\* update when a spawn is due and spawn_plane panics: the planes are moved
\* and culled and the cooldown decremented, nothing is pushed, and no later
\* call happens
UpdatePanic(width, height, rp) ==
    LET cooldown == SaturatingSub(spawn_cooldown, 1) IN
    /\ ~air_call.panicked
    /\ SpawnDue(cooldown, rp)
    /\ SpawnPanics(height)
    /\ UpdateMoves(width, height)
    /\ planes' = KeptPlanes(width)
    /\ spawn_cooldown' = cooldown
    /\ updates_since_spawn' = CountedUpdate(updates_since_spawn)
    /\ air_call' = [op |-> "update", cooldown |-> cooldown, draw |-> rp,
                    panicked |-> TRUE]

AirCallNone == [op |-> "new", cooldown |-> 0, draw |-> 0, panicked |-> FALSE]

\* AirplaneSystem::render. A glyph is named: "dot" is '.', "middle dot" is the
\* smaller dot of the last match arm. The trail index i counts from 0.
TrailRowOffset == 3
AirplaneArtHeight == 7

trail_style_all_white(i) == [ch |-> "dot", color |-> "White"]

trail_style(i) ==
    IF i <= 1 THEN [ch |-> "dot", color |-> "White"]
    ELSE IF i <= 3 THEN [ch |-> "dot", color |-> "Grey"]
    ELSE IF i <= 5 THEN [ch |-> "dot", color |-> "DarkGrey"]
    ELSE [ch |-> "middle dot", color |-> "DarkGrey"]

\* f32 as u16 of a position that is not negative: the whole columns
AsU16(x) == x \div Tenths

\* the render_char calls made for the trail of one plane, in order
TrailDots(p, width, height) ==
    LET dot(k) == [i |-> k - 1,
                   x |-> AsU16(p.trail_positions[k]),
                   y |-> p.y + TrailRowOffset,
                   ch |-> trail_style(k - 1).ch,
                   color |-> trail_style(k - 1).color]
        all == [k \in 1..Len(p.trail_positions) |-> dot(k)]
    IN  SelectSeq(all, LAMBDA d : d.x < width /\ d.y < height)

\* the lines of the airplane art drawn for one plane: the loop breaks at the
\* first line at or below the height
ArtRows(p, height) ==
    Cardinality({line_offset \in 0..(AirplaneArtHeight - 1) :
                    p.y + line_offset < height})

RenderPlanes ==
    [k \in 1..Len(planes) |->
        [trail |-> TrailDots(planes[k], terminal_width, terminal_height),
         x |-> AsU16(planes[k].x),
         art_rows |-> ArtRows(planes[k], terminal_height)]]

AirRender ==
    /\ ~air_call.panicked
    /\ air_call' = [op |-> "render", cooldown |-> air_call.cooldown,
                    draw |-> air_call.draw, panicked |-> FALSE,
                    drawn |-> RenderPlanes]
    /\ UNCHANGED <<planes, terminal_width, terminal_height, spawn_cooldown,
                   updates_since_spawn>>

(***************************************************************************)
(* WorldScene, Ground, House and Decorations: the layout of the static     *)
(* scene. Every u16 addition a render makes is recorded as the pair of its *)
(* operands, so that a sum beyond U16Max shows.                            *)
(***************************************************************************)
GROUND_HEIGHT == 8
WIDTH == 64
HEIGHT == 13
DOOR_OFFSET == 18
\* the longest line of House::get_ascii
HouseArtWidth == 66
PathBaseWidth == 4
TreeHeight == 5
FenceHeight == 2
MailboxHeight == 3
BushHeight == 3
TreeOffset == 20
FenceGap == 2
MailboxOffset == 10
BushOffset == 10

\* a + b as u16: the sum the build keeps when it does not stop on overflow
AddU16(a, b) == (a + b) % (U16Max + 1)

\* the path bounds of ground row y
GroundRowNarrow(y, path_center) ==
    LET path_width == PathBaseWidth
    IN  [path_width |-> path_width,
         path_start |-> SaturatingSub(path_center, path_width \div 2),
         path_end |-> path_center + path_width \div 2]

GroundRow(y, path_center) ==
    LET path_width == PathBaseWidth + y
    IN  [path_width |-> path_width,
         path_start |-> SaturatingSub(path_center, path_width \div 2),
         path_end |-> path_center + path_width \div 2]

is_path(x, row) == x >= row.path_start /\ x <= row.path_end

\* Ground::render: the rows it walks and the additions of its render_char calls
GroundRender(width, height, y_start, path_center) ==
    [width |-> width,
     rows |-> [y \in 0..(height - 1) |-> GroundRow(y, path_center)],
     adds |-> IF width > 0 THEN {<<y_start, y>> : y \in 0..(height - 1)} ELSE {}]

\* House::render: row = y + i for each line, col = x + j for each character
HouseRender(x, y) ==
    [adds |-> {<<y, i>> : i \in 0..(HEIGHT - 1)}
              \cup {<<x, j>> : j \in 0..(HouseArtWidth - 1)}]

\* the rows one decoration is drawn on
DecorationRows(drawn, y, height) ==
    IF drawn THEN {<<y, i>> : i \in 0..(height - 1)} ELSE {}

DecorationsRender(horizon_y, house_x, house_width, path_center, width) ==
    LET tree_y == SaturatingSub(horizon_y, TreeHeight)
        tree_x == SaturatingSub(house_x, TreeOffset)
        fence_y == SaturatingSub(horizon_y, FenceHeight)
        fence_x == AddU16(AddU16(house_x, house_width), FenceGap)
        mailbox_x == SaturatingSub(tree_x, MailboxOffset)
        mailbox_y == SaturatingSub(horizon_y, MailboxHeight)
        bush_x == SaturatingSub(path_center, BushOffset)
        bush_y == SaturatingSub(horizon_y, BushHeight \div 2)
    IN  [tree_x |-> tree_x, tree_y |-> tree_y, tree_drawn |-> tree_x > 0,
         fence_x |-> fence_x, fence_y |-> fence_y, fence_drawn |-> fence_x < width,
         mailbox_x |-> mailbox_x, mailbox_y |-> mailbox_y,
         mailbox_drawn |-> mailbox_x < width,
         bush_x |-> bush_x, bush_y |-> bush_y, bush_drawn |-> bush_x > 0,
         adds |-> {<<house_x, house_width>>,
                   <<AddU16(house_x, house_width), FenceGap>>}
                  \cup DecorationRows(tree_x > 0, tree_y, TreeHeight)
                  \cup DecorationRows(fence_x < width, fence_y, FenceHeight)
                  \cup DecorationRows(mailbox_x < width, mailbox_y, MailboxHeight)
                  \cup DecorationRows(bush_x > 0, bush_y, BushHeight)]

\* the four coordinates WorldScene::render computes first
SceneLayoutDoorAtCorner(width, height) ==
    LET horizon_y == SaturatingSub(height, GROUND_HEIGHT)
        house_x == SaturatingSub(width \div 2, WIDTH \div 2)
    IN  [horizon_y |-> horizon_y,
         house_x |-> house_x,
         house_y |-> SaturatingSub(horizon_y, HEIGHT),
         path_center |-> house_x]

SceneLayout(width, height) ==
    LET horizon_y == SaturatingSub(height, GROUND_HEIGHT)
        house_x == SaturatingSub(width \div 2, WIDTH \div 2)
    IN  [horizon_y |-> horizon_y,
         house_x |-> house_x,
         house_y |-> SaturatingSub(horizon_y, HEIGHT),
         path_center |-> AddU16(house_x, DOOR_OFFSET)]

WorldSceneRender(width, height) ==
    LET l == SceneLayout(width, height)
    IN  [width |-> width, height |-> height,
         horizon_y |-> l.horizon_y, house_x |-> l.house_x,
         house_y |-> l.house_y, path_center |-> l.path_center,
         door_add |-> <<l.house_x, DOOR_OFFSET>>,
         ground |-> GroundRender(width, GROUND_HEIGHT, l.horizon_y, l.path_center),
         house |-> HouseRender(l.house_x, l.house_y),
         decorations |-> DecorationsRender(l.horizon_y, l.house_x, WIDTH,
                                           l.path_center, width)]

\* the terminal sizes a scene is built with
MaxSceneWidth == 80
MaxSceneHeight == 24
SceneWidths == 0..MaxSceneWidth \cup {U16Max - 1, U16Max}
SceneHeights == 0..MaxSceneHeight \cup {U16Max - 1, U16Max}

(***************************************************************************)
(* Config: the coordinates, their validation and the environment overrides *)
(* (src/src/config.rs). Latitude and longitude are f64 in the source; the  *)
(* model counts them in hundredths of a degree (52.52 is 5252). A text is  *)
(* the sequence of its characters.                                         *)
(***************************************************************************)
Hundredths == 100
ENV_LATITUDE == "WEATHR_LATITUDE"
ENV_LONGITUDE == "WEATHR_LONGITUDE"
default_latitude == 5252
default_longitude == 1341
MinLatitude == -9000
MaxLatitude == 9000
MinLongitude == -18000
MaxLongitude == 18000

\* Config::default: Location::default has auto = true
ConfigDefault ==
    [latitude |-> default_latitude, longitude |-> default_longitude, auto |-> TRUE]

ConfigOk == <<"Ok">>
ConfigErr(e) == <<"Err", e>>

validate_rejects_limits(cfg) ==
    IF cfg.latitude <= MinLatitude \/ cfg.latitude >= MaxLatitude
    THEN ConfigErr(<<"InvalidLatitude", cfg.latitude>>)
    ELSE IF cfg.longitude <= MinLongitude \/ cfg.longitude >= MaxLongitude
         THEN ConfigErr(<<"InvalidLongitude", cfg.longitude>>)
         ELSE ConfigOk

validate(cfg) ==
    IF cfg.latitude < MinLatitude \/ cfg.latitude > MaxLatitude
    THEN ConfigErr(<<"InvalidLatitude", cfg.latitude>>)
    ELSE IF cfg.longitude < MinLongitude \/ cfg.longitude > MaxLongitude
         THEN ConfigErr(<<"InvalidLongitude", cfg.longitude>>)
         ELSE ConfigOk

\* str::trim: the text without its leading and trailing blanks
RECURSIVE TrimStart(_)
TrimStart(s) == IF s # <<>> /\ Head(s) = " " THEN TrimStart(Tail(s)) ELSE s
RECURSIVE TrimEnd(_)
TrimEnd(s) ==
    IF s # <<>> /\ s[Len(s)] = " " THEN TrimEnd(SubSeq(s, 1, Len(s) - 1)) ELSE s
Trim(s) == TrimEnd(TrimStart(s))

\* str::parse::<f64> on decimal texts: an optional sign, digits, and an
\* optional point followed by up to two digits; the value in hundredths, or
\* None when the text is not a number (exponents, inf and nan are left out)
DigitChars == <<"0", "1", "2", "3", "4", "5", "6", "7", "8", "9">>
IsDigits(s) ==
    \A i \in 1..Len(s) : \E d \in 1..Len(DigitChars) : DigitChars[d] = s[i]
DigitValue(c) == (CHOOSE d \in 1..Len(DigitChars) : DigitChars[d] = c) - 1
RECURSIVE DigitsValue(_)
DigitsValue(s) ==
    IF s = <<>> THEN 0
    ELSE 10 * DigitsValue(SubSeq(s, 1, Len(s) - 1)) + DigitValue(s[Len(s)])
PointAt(s) == {i \in 1..Len(s) : s[i] = "."}
ParseUnsigned(s) ==
    IF PointAt(s) = {}
    THEN IF s # <<>> /\ IsDigits(s) THEN Some(Hundredths * DigitsValue(s)) ELSE None
    ELSE LET p == CHOOSE i \in PointAt(s) : TRUE
             whole == SubSeq(s, 1, p - 1)
             frac == SubSeq(s, p + 1, Len(s))
         IN  IF /\ Cardinality(PointAt(s)) = 1
                /\ Len(whole) + Len(frac) > 0
                /\ IsDigits(whole) /\ IsDigits(frac) /\ Len(frac) <= 2
             THEN Some(Hundredths * DigitsValue(whole)
                       + (IF Len(frac) = 1 THEN 10 ELSE 1) * DigitsValue(frac))
             ELSE None
ParseF64(s) ==
    IF s # <<>> /\ Head(s) = "-"
    THEN LET v == ParseUnsigned(Tail(s))
         IN  IF v = None THEN None ELSE Some(0 - Unwrap(v))
    ELSE IF s # <<>> /\ Head(s) = "+" THEN ParseUnsigned(Tail(s))
         ELSE ParseUnsigned(s)

\* a variable of the environment: not set, set to a text, or set to bytes that
\* are not valid Unicode; env::var gives the text of the second kind only
NotUnicode == [unicode |-> FALSE, text |-> <<>>]
Text(s) == [unicode |-> TRUE, text |-> s]
EnvVar(environment, name) ==
    IF environment[name] # None /\ Unwrap(environment[name]).unicode
    THEN Some(Unwrap(environment[name]).text)
    ELSE None

\* apply_env_overrides: the Config it leaves and the result it returns
apply_env_overrides_keeps_auto(cfg, environment) ==
    LET lat == EnvVar(environment, ENV_LATITUDE)
        lon == EnvVar(environment, ENV_LONGITUDE)
    IN  IF lat # None /\ ParseF64(Trim(Unwrap(lat))) = None
        THEN [config |-> cfg,
              result |-> ConfigErr(<<"InvalidEnvVar", ENV_LATITUDE, Unwrap(lat)>>)]
        ELSE LET with_lat ==
                     IF lat = None THEN cfg
                     ELSE [cfg EXCEPT !.latitude = Unwrap(ParseF64(Trim(Unwrap(lat))))]
             IN  IF lon # None /\ ParseF64(Trim(Unwrap(lon))) = None
                 THEN [config |-> with_lat,
                       result |-> ConfigErr(<<"InvalidEnvVar", ENV_LONGITUDE,
                                              Unwrap(lon)>>)]
                 ELSE [config |->
                           IF lon = None THEN with_lat
                           ELSE [with_lat EXCEPT
                                    !.longitude = Unwrap(ParseF64(Trim(Unwrap(lon))))],
                       result |-> ConfigOk]

apply_env_overrides(cfg, environment) ==
    LET lat == EnvVar(environment, ENV_LATITUDE)
        lon == EnvVar(environment, ENV_LONGITUDE)
    IN  IF lat # None /\ ParseF64(Trim(Unwrap(lat))) = None
        THEN [config |-> cfg,
              result |-> ConfigErr(<<"InvalidEnvVar", ENV_LATITUDE, Unwrap(lat)>>)]
        ELSE LET with_lat ==
                     IF lat = None THEN cfg
                     ELSE [cfg EXCEPT !.latitude = Unwrap(ParseF64(Trim(Unwrap(lat)))),
                                      !.auto = FALSE]
             IN  IF lon # None /\ ParseF64(Trim(Unwrap(lon))) = None
                 THEN [config |-> with_lat,
                       result |-> ConfigErr(<<"InvalidEnvVar", ENV_LONGITUDE,
                                              Unwrap(lon)>>)]
                 ELSE [config |->
                           IF lon = None THEN with_lat
                           ELSE [with_lat EXCEPT
                                    !.longitude = Unwrap(ParseF64(Trim(Unwrap(lon)))),
                                    !.auto = FALSE],
                       result |-> ConfigOk]

\* the coordinates a config file can hold and the values a variable can have
FileLatitudes == {-9001, MinLatitude, default_latitude, MaxLatitude, 9001}
FileLongitudes == {-18001, MinLongitude, default_longitude, MaxLongitude, 18001}
EnvValues ==
    {None, Some(NotUnicode),
     Some(Text(<<"4", "8", ".", "8", "5">>)),
     Some(Text(<<" ", "-", "9", "1", " ">>)),
     Some(Text(<<"a", "b", "c">>)),
     Some(Text(<<>>))}
Environments == [{ENV_LATITUDE, ENV_LONGITUDE} -> EnvValues]
EnvUnset == [name \in {ENV_LATITUDE, ENV_LONGITUDE} |-> None]
ConfigCallNone == [op |-> "new", before |-> ConfigDefault, result |-> ConfigOk]

\* what Config::load finds on disk: no config directory, no file at the path,
\* a file that cannot be read or deserialized, or a file holding a Config
NoConfigDir == <<"NoConfigDir">>
FileMissing == <<"Missing">>
FileUnreadable == <<"Unreadable">>
FileHolding(cfg) == <<"File", cfg>>
Files ==
    {NoConfigDir, FileMissing, FileUnreadable}
        \cup {FileHolding([latitude |-> lat, longitude |-> lon, auto |-> auto]) :
                 lat \in FileLatitudes, lon \in FileLongitudes, auto \in BOOLEAN}

\* Config::load: [result, config], config being the value inside Ok
load(file, environment) ==
    IF file = NoConfigDir
    THEN [result |-> ConfigErr("NoConfigDir"), config |-> ConfigDefault]
    ELSE IF file = FileMissing
    THEN LET over == apply_env_overrides(ConfigDefault, environment) IN
         [result |-> over.result, config |-> over.config]
    ELSE IF file = FileUnreadable
    THEN [result |-> ConfigErr("ParseError"), config |-> ConfigDefault]
    ELSE LET over == apply_env_overrides(file[2], environment) IN
         IF over.result # ConfigOk
         THEN [result |-> over.result, config |-> over.config]
         ELSE [result |-> validate(over.config), config |-> over.config]

ConfigIdle ==
    /\ config = ConfigDefault
    /\ env = EnvUnset
    /\ config_call = ConfigCallNone

(***************************************************************************)
(* App and main                                                            *)
(***************************************************************************)
ChannelCapacity == 1

\* the terminal size at startup and the sizes Resize events carry
StartSize == <<80, 24>>
ResizeSizes == {<<80, 24>>, <<40, 10>>}

\* the results a fetch can deliver, and the --simulate conditions
FetchedWeather ==
    {[condition |-> "Clear", is_day |-> TRUE, temperature |-> 20],
     [condition |-> "Thunderstorm", is_day |-> FALSE, temperature |-> 10]}
FetchResults ==
    {<<"Ok", w>> : w \in FetchedWeather} \cup {<<"Err", "timeout">>}
SimulatedConditions == {"Rain"}

\* the draw calls of one iteration of run, in the order of the source
RenderOrder ==
    <<"clear", "background", "scene", "smoke", "foreground", "hud", "flush">>

\* the positions of the main thread inside the loop of App::run
LoopPcs ==
    {"recv", "clear", "background", "scene", "smoke", "foreground", "hud",
     "flush", "poll", "size"}

\* App::new without --simulate: a fresh AppState, the fetch task spawned
AppNewLive ==
    /\ state = AppStateNew
    /\ channel = <<>>
    /\ fetch_pc = "fetch"
    /\ fetch_result = None

\* WeatherCondition::rain_intensity and snow_intensity: the intensity that
\* belongs to a condition, kept as a term of the condition
rain_intensity(c) == <<"rain_intensity", c>>
snow_intensity(c) == <<"snow_intensity", c>>

\* AnimationManager::new: the intensities before any setter was called
AnimationManagerNew == [rain |-> <<"initial">>, snow |-> <<"initial">>]

\* App::new with --simulate: update_weather at construction, no fetch task,
\* the sender dropped
AppNewSimulated(condition, night) ==
    /\ state = update_weather(AppStateNew,
                              [condition |-> condition, is_day |-> ~night,
                               temperature |-> 20])
    /\ channel = <<>>
    /\ fetch_pc = "absent"
    /\ fetch_result = None

\* main up to the select!: the renderer and the scene get the startup size;
\* select! polls its two branches in a random order and run never yields,
\* so the ctrl_c branch is either never polled ("unpolled": no handler
\* installed) or polled once before run ("pending": handler installed)
MainStart ==
    /\ pc = "recv"
    /\ run_result = None
    /\ cleanup_called = FALSE
    /\ exit_status = None
    /\ frame_ops = <<>>
    /\ term_error = None
    /\ renderer_size = StartSize
    /\ scene_size = StartSize
    /\ ctrl_c \in {"unpolled", "pending"}
    /\ intensities = AnimationManagerNew

\* an io::Error propagated by `?` ends run with that error
RunFails(op) ==
    /\ pc' = "cleanup"
    /\ run_result' = Some(<<"Err", op>>)
    /\ term_error' = Some(op)

RunGoesOn(next) ==
    /\ pc' = next
    /\ UNCHANGED <<run_result, term_error>>

\* the dispatch of the result taken from the channel, if any
RecvDispatch ==
    IF channel # <<>>
    THEN /\ channel' = Tail(channel)
         /\ state' =
                IF Head(channel)[1] = "Ok"
                THEN update_weather(state, Head(channel)[2])
                ELSE set_weather_error(
                         state, <<"Error fetching weather: ", Head(channel)[2]>>)
         /\ intensities' =
                IF Head(channel)[1] = "Ok"
                THEN [rain |-> rain_intensity(Head(channel)[2].condition),
                      snow |-> snow_intensity(Head(channel)[2].condition)]
                ELSE intensities
    ELSE UNCHANGED <<channel, state, intensities>>

\* Recv with a receive that waits for a message
RecvBlocking ==
    /\ pc = "recv"
    /\ channel # <<>>
    /\ pc' = "clear"
    /\ frame_ops' = <<>>
    /\ RecvDispatch
    /\ UNCHANGED <<run_result, cleanup_called, exit_status, term_error,
                   sizeVars, fetch_pc,
                   fetch_result, ctrl_c, airVars, sceneVars, configVars, toolVars>>

\* the start of an iteration: try_recv and the dispatch of its result
Recv ==
    /\ pc = "recv"
    /\ pc' = "clear"
    /\ frame_ops' = <<>>
    /\ RecvDispatch
    /\ UNCHANGED <<run_result, cleanup_called, exit_status, term_error,
                   sizeVars, fetch_pc,
                   fetch_result, ctrl_c, airVars, sceneVars, configVars, toolVars>>

\* one draw call of the iteration: it succeeds and run goes on to `next`, or
\* it fails and run returns the error
DrawPass(here, next, ok) ==
    /\ pc = here
    /\ frame_ops' = Append(frame_ops, here)
    /\ IF ok THEN RunGoesOn(next) ELSE RunFails(here)
    /\ UNCHANGED <<cleanup_called, exit_status, sizeVars, fetchVars, ctrl_c,
                   airVars, sceneVars, configVars, toolVars, animVars>>

\* Clear followed by the static scene, the background pass left out
ClearSkipsBackground ==
    \E ok \in BOOLEAN : DrawPass("clear", "scene", ok) /\ UNCHANGED state

Clear == \E ok \in BOOLEAN : DrawPass("clear", "background", ok) /\ UNCHANGED state
RenderBackground ==
    \E ok \in BOOLEAN : DrawPass("background", "scene", ok) /\ UNCHANGED state
SceneRender ==
    \E ok \in BOOLEAN : DrawPass("scene", "smoke", ok) /\ UNCHANGED state
RenderChimneySmoke ==
    \E ok \in BOOLEAN : DrawPass("smoke", "foreground", ok) /\ UNCHANGED state
RenderForeground ==
    \E ok \in BOOLEAN : DrawPass("foreground", "hud", ok) /\ UNCHANGED state

\* update_loading_animation, update_cached_info, render_line_colored
RenderHud ==
    \E ok \in BOOLEAN, elapsed \in BOOLEAN :
        /\ DrawPass("hud", "flush", ok)
        /\ state' = update_cached_info(update_loading_animation(state, elapsed))

Flush == \E ok \in BOOLEAN : DrawPass("flush", "poll", ok) /\ UNCHANGED state

\* the events event::read can return
KeyEvents == [kind : {"Key"}, code : {"q", "Q", "c", "x"}, ctrl : BOOLEAN]
ResizeEvents == [kind : {"Resize"}, size : ResizeSizes]
Events == KeyEvents \cup ResizeEvents \cup {[kind |-> "Mouse"]}

IsQuitKey(ev) ==
    /\ ev.kind = "Key"
    /\ ev.code \in {"q", "Q"} \/ (ev.code = "c" /\ ev.ctrl)

\* event::poll fails, or times out with no event
PollNoEvent(ok) ==
    /\ pc = "poll"
    /\ IF ok THEN RunGoesOn("size") ELSE RunFails("poll")
    /\ UNCHANGED <<state, cleanup_called, exit_status, frame_ops, sizeVars,
                   fetchVars, ctrl_c,
                   airVars, sceneVars, configVars, toolVars, animVars>>

\* event::poll reports an event and event::read fails
PollReadFails ==
    /\ pc = "poll"
    /\ RunFails("read")
    /\ UNCHANGED <<state, cleanup_called, exit_status, frame_ops, sizeVars,
                   fetchVars, ctrl_c,
                   airVars, sceneVars, configVars, toolVars, animVars>>

\* TerminalRenderer::manual_resize: the sizes get_size may report after the
\* call; when it fails the renderer may or may not have taken the new size
manual_resize(size, ok) == IF ok THEN {size} ELSE {renderer_size, size}

\* Event::Resize: manual_resize(width, height)?
PollResize(ev, ok) ==
    /\ pc = "poll"
    /\ ev.kind = "Resize"
    /\ renderer_size' \in manual_resize(ev.size, ok)
    /\ IF ok THEN RunGoesOn("size") ELSE RunFails("resize")
    /\ UNCHANGED <<state, cleanup_called, exit_status, frame_ops, scene_size,
                   fetchVars,
                   ctrl_c, airVars, sceneVars, configVars, toolVars, animVars>>

\* Event::Key and every other event: a quit key breaks the loop
PollKey(ev) ==
    /\ pc = "poll"
    /\ ev.kind # "Resize"
    /\ IF IsQuitKey(ev)
       THEN pc' = "cleanup" /\ run_result' = Some(<<"Ok">>) /\ UNCHANGED term_error
       ELSE RunGoesOn("size")
    /\ UNCHANGED <<state, cleanup_called, exit_status, frame_ops, sizeVars,
                   fetchVars, ctrl_c,
                   airVars, sceneVars, configVars, toolVars, animVars>>

PollEvent ==
    \/ \E ok \in BOOLEAN : PollNoEvent(ok)
    \/ PollReadFails
    \/ \E ev \in Events, ok \in BOOLEAN : PollResize(ev, ok)
    \/ \E ev \in Events : PollKey(ev)

\* EndIteration with the scene left at its old size
EndIterationStaleScene ==
    /\ pc = "size"
    /\ pc' = "recv"
    /\ UNCHANGED <<state, scene_size, run_result, cleanup_called,
                   exit_status, frame_ops,
                   term_error, renderer_size, fetchVars, ctrl_c, airVars, sceneVars, configVars, toolVars, animVars>>

\* the end of an iteration: scene.update_size(renderer.get_size()) and
\* update_sunny_animation
EndIteration ==
    /\ pc = "size"
    /\ scene_size' = renderer_size
    /\ pc' = "recv"
    /\ UNCHANGED <<state, run_result, cleanup_called, exit_status, frame_ops,
                   term_error,
                   renderer_size, fetchVars, ctrl_c, airVars, sceneVars, configVars, toolVars, animVars>>

\* the exit status of main: 1 when the cleanup or run returned an error
ExitStatus(cleanup_ok, result) ==
    IF cleanup_ok /\ result[1] = "Ok" THEN 0 ELSE 1

\* MainCleanup that exits on an error of run before the cleanup
MainCleanupSkippedOnError(ok) ==
    /\ pc = "cleanup"
    /\ pc' = "exited"
    /\ cleanup_called' = (Unwrap(run_result)[1] = "Ok")
    /\ exit_status' = Some(ExitStatus(ok, Unwrap(run_result)))
    /\ UNCHANGED <<state, run_result, frame_ops, term_error, sizeVars,
                   fetchVars,
                   ctrl_c, airVars, sceneVars, configVars, toolVars, animVars>>

\* main after the select!: renderer.cleanup()?, then the exit, with status 1
\* when the cleanup or run failed
MainCleanup(ok) ==
    /\ pc = "cleanup"
    /\ pc' = "exited"
    /\ cleanup_called' = TRUE
    /\ exit_status' = Some(ExitStatus(ok, Unwrap(run_result)))
    /\ UNCHANGED <<state, run_result, frame_ops, term_error, sizeVars,
                   fetchVars,
                   ctrl_c, airVars, sceneVars, configVars, toolVars, animVars>>

Cleanup == \E ok \in BOOLEAN : MainCleanup(ok)

\* an interrupt signal while run is looping: with no handler installed the
\* process is terminated where it stands; with the handler installed the
\* signal is noted for the ctrl_c branch, which is polled again only if run
\* yields
Sigint ==
    /\ pc \in LoopPcs
    /\ \/ ctrl_c = "unpolled" /\ pc' = "killed" /\ ctrl_c' = "unpolled"
       \/ ctrl_c = "pending" /\ pc' = pc /\ ctrl_c' = "signalled"
    /\ UNCHANGED <<state, run_result, cleanup_called, exit_status, frame_ops,
                   term_error,
                   sizeVars, fetchVars, airVars, sceneVars, configVars, toolVars, animVars>>

\* the fetch task: get_current_weather(..).await ends with some result
FetchComplete ==
    /\ pc \in LoopPcs \cup {"cleanup"}
    /\ fetch_pc = "fetch"
    /\ \E r \in FetchResults : fetch_result' = Some(r)
    /\ fetch_pc' = "send"
    /\ UNCHANGED <<state, channel, mainVars, sizeVars, ctrl_c, airVars, sceneVars, configVars, toolVars, animVars>>

\* tx.send(result).await completes when the channel has room
FetchSend ==
    /\ pc \in LoopPcs \cup {"cleanup"}
    /\ fetch_pc = "send"
    /\ Len(channel) < ChannelCapacity
    /\ channel' = Append(channel, Unwrap(fetch_result))
    /\ fetch_result' = None
    /\ fetch_pc' = "sleep"
    /\ UNCHANGED <<state, mainVars, sizeVars, ctrl_c, airVars, sceneVars, configVars, toolVars, animVars>>

\* tx.send(result).await fails once the receiver is dropped with the App, at
\* the end of main: the task breaks out of its loop
FetchSendClosed ==
    /\ pc = "exited"
    /\ fetch_pc = "send"
    /\ fetch_result' = None
    /\ fetch_pc' = "ended"
    /\ UNCHANGED <<state, channel, mainVars, sizeVars, ctrl_c, airVars, sceneVars, configVars, toolVars, animVars>>

\* tokio::time::sleep(REFRESH_INTERVAL).await ends
FetchWake ==
    /\ pc \in LoopPcs \cup {"cleanup"}
    /\ fetch_pc = "sleep"
    /\ fetch_pc' = "fetch"
    /\ UNCHANGED <<state, channel, fetch_result, mainVars, sizeVars, ctrl_c,
                   airVars, sceneVars, configVars, toolVars, animVars>>

\* the app variables of a run in which App::new and main are not modelled
SceneIdle == layout = None

AppIdle ==
    /\ pc = "idle"
    /\ run_result = None
    /\ cleanup_called = FALSE
    /\ exit_status = None
    /\ frame_ops = <<>>
    /\ term_error = None
    /\ renderer_size = StartSize
    /\ scene_size = StartSize
    /\ channel = <<>>
    /\ fetch_pc = "absent"
    /\ fetch_result = None
    /\ ctrl_c = "unpolled"
    /\ intensities = AnimationManagerNew

(***************************************************************************)
(* Geolocation: detect_location_with_retry                                 *)
(***************************************************************************)
MAX_RETRIES == 3
INITIAL_RETRY_DELAY_MS == 500

\* Result values of fetch_location and of detect_location_with_retry
Ok(v) == <<"Ok", v>>
Err(e) == <<"Err", e>>

\* GeolocationError; a NetworkError is known here by an identity and by what
\* its is_retryable() answers
NetworkErrors == [id : {"timeout", "connect", "status"}, retryable : BOOLEAN]
Unreachable(net) == <<"Unreachable", net>>
ParseError(msg) == <<"ParseError", msg>>
RetriesExhausted(attempts) == <<"RetriesExhausted", attempts>>
is_retryable(net) == net.retryable
GeolocationErrors ==
    {Unreachable(net) : net \in NetworkErrors}
        \cup {ParseError(msg) : msg \in {"format", "latitude", "longitude"}}
GeoLocations == {"here", "there"}
FetchOutcomes ==
    {Ok(loc) : loc \in GeoLocations} \cup {Err(e) : e \in GeolocationErrors}

should_retry(e) == e[1] = "Unreachable" /\ is_retryable(e[2])

\* a delay that does not double
RetryDelayFixed(attempt) == INITIAL_RETRY_DELAY_MS

RetryDelay(attempt) == INITIAL_RETRY_DELAY_MS * 2 ^ (attempt - 1)

GeoNew ==
    [pc |-> "fetch", attempt |-> 1, last_error |-> None, e |-> None,
     outcomes |-> <<>>, slept |-> <<>>, result |-> None]

\* one pass of the loop body from fetch_location().await to the return or to
\* the start of the sleep
FetchLocation ==
    /\ geo.pc = "fetch"
    /\ \E out \in FetchOutcomes :
        LET fetched == [geo EXCEPT !.outcomes = Append(@, out)] IN
        geo' = IF out[1] = "Ok"
               THEN [fetched EXCEPT !.pc = "done", !.result = Some(out)]
               ELSE IF ~should_retry(out[2]) \/ geo.attempt = MAX_RETRIES
               THEN [fetched EXCEPT !.pc = "done", !.result = Some(Err(out[2]))]
               ELSE [fetched EXCEPT !.pc = "sleep", !.e = Some(out[2]),
                                    !.slept = Append(@, RetryDelay(geo.attempt))]
    /\ UNCHANGED <<wizard, state, airVars, appVars, sceneVars, configVars>>

\* the sleep returns; last_error is set and the loop goes to its next attempt
\* or, past the last one, to the return after the loop
SleepDone ==
    /\ geo.pc = "sleep"
    /\ geo' = IF geo.attempt < MAX_RETRIES
              THEN [geo EXCEPT !.pc = "fetch", !.attempt = @ + 1,
                               !.last_error = geo.e, !.e = None]
              ELSE [geo EXCEPT !.pc = "done", !.last_error = geo.e, !.e = None,
                               !.result =
                                   Some(Err(IF geo.e = None
                                            THEN RetriesExhausted(MAX_RETRIES)
                                            ELSE Unwrap(geo.e)))]
    /\ UNCHANGED <<wizard, state, airVars, appVars, sceneVars, configVars>>

(***************************************************************************)
(* Onboarding: onboard::run                                                *)
(***************************************************************************)
\* the wizard before run: config is the local of run, file what the config
\* path holds and file0 what it held at the start, saves counts the calls of
\* Config::save, answered is the set of prompts that returned a value, last
\* the outcome of the last search or city selection
WizardNew ==
    [pc |-> "start", config |-> ConfigDefault, method |-> None,
     results |-> <<>>, file |-> FileMissing, file0 |-> FileMissing,
     saves |-> 0, answered |-> {}, last |-> None, result |-> None]

\* a file left behind by a write that failed part-way
FileTruncated == <<"Truncated">>

LOCATION_METHODS == <<"Coordinates", "CitySearch", "AutoDetect">>
Cancelled == <<"Cancelled">>
PromptError == <<"PromptError">>
PromptFailures == {Cancelled, PromptError}

\* what the user can give to the validated inputs, and what the geocoding
\* service can answer: up to MaxResults places, with any coordinates
MaxResults == 2
PromptLatitudes == {MinLatitude, 4885}
PromptLongitudes == {235, MaxLongitude}
GeocodingResults ==
    {[latitude |-> 4885, longitude |-> 235], [latitude |-> 9001, longitude |-> 0]}
ResultLists == UNION {[1..n -> GeocodingResults] : n \in 0..MaxResults}
GeocodingResponses ==
    {<<"GeocodingError">>, <<"Body", None>>}
        \cup {<<"Body", Some(rs)>> : rs \in ResultLists}

\* search_cities: the request or the body fails, or the body has no results
\* or an empty list, or it has results
search_cities(response) ==
    IF response[1] = "GeocodingError" THEN Err(<<"GeocodingError">>)
    ELSE IF response[2] = None \/ Unwrap(response[2]) = <<>>
    THEN Err(<<"NoGeocodingResults">>)
    ELSE Ok(Unwrap(response[2]))

\* the `?` after a prompt or a call: run returns the error
WizardFails(e) ==
    wizard' = [wizard EXCEPT !.pc = "done", !.result = Some(Err(e))]
WizardKeeps == UNCHANGED <<geo, state, airVars, appVars, sceneVars, configVars>>

\* Phase 1 and the build of the HTTP client
WizardStart ==
    /\ wizard.pc = "start"
    /\ \/ /\ wizard.file = NoConfigDir
          /\ WizardFails(<<"Config", <<"NoConfigDir">>>>)
       \/ /\ wizard.file # NoConfigDir
          /\ \E client_built \in BOOLEAN :
                IF client_built
                THEN wizard' =
                        [wizard EXCEPT
                            !.pc = "method",
                            !.config = IF wizard.file[1] = "File"
                                       THEN wizard.file[2]
                                       ELSE ConfigDefault]
                ELSE WizardFails(<<"GeocodingError">>)
    /\ WizardKeeps

prompt_location_method ==
    /\ wizard.pc = "method"
    /\ \/ \E e \in PromptFailures : WizardFails(e)
       \/ \E selection \in 1..Len(LOCATION_METHODS) :
            LET method == LOCATION_METHODS[selection] IN
            wizard' =
                [wizard EXCEPT
                    !.method = Some(method),
                    !.answered = @ \cup {"method"},
                    !.config.auto = IF method = "AutoDetect" THEN TRUE ELSE @,
                    !.pc = CASE method = "Coordinates" -> "latitude"
                             [] method = "CitySearch" -> "city_name"
                             [] OTHER -> "display"]
    /\ WizardKeeps

prompt_latitude ==
    /\ wizard.pc = "latitude"
    /\ \/ WizardFails(PromptError)
       \/ \E lat \in PromptLatitudes :
            wizard' = [wizard EXCEPT !.config.latitude = lat,
                                     !.answered = @ \cup {"latitude"},
                                     !.pc = "longitude"]
    /\ WizardKeeps

prompt_longitude ==
    /\ wizard.pc = "longitude"
    /\ \/ WizardFails(PromptError)
       \/ \E lon \in PromptLongitudes :
            wizard' = [wizard EXCEPT !.config.longitude = lon,
                                     !.answered = @ \cup {"longitude"},
                                     !.pc = "auto"]
    /\ WizardKeeps

prompt_auto_location ==
    /\ wizard.pc = "auto"
    /\ \/ \E e \in PromptFailures : WizardFails(e)
       \/ \E auto \in BOOLEAN :
            wizard' = [wizard EXCEPT !.config.auto = auto,
                                     !.answered = @ \cup {"auto"},
                                     !.pc = "display"]
    /\ WizardKeeps

prompt_city_name ==
    /\ wizard.pc = "city_name"
    /\ \/ WizardFails(PromptError)
       \/ wizard' = [wizard EXCEPT !.answered = @ \cup {"city_name"},
                                   !.pc = "search"]
    /\ WizardKeeps

\* search_cities(..).await and the arms of the match that do not prompt
SearchCities ==
    /\ wizard.pc = "search"
    /\ \E response \in GeocodingResponses :
        LET found == search_cities(response) IN
        wizard' =
            IF found[1] = "Ok"
            THEN [wizard EXCEPT !.last = Some(response), !.results = found[2],
                                !.pc = "select"]
            ELSE IF found[2] = <<"NoGeocodingResults">>
            THEN [wizard EXCEPT !.last = Some(response), !.pc = "city_name"]
            ELSE [wizard EXCEPT !.last = Some(response), !.pc = "display"]
    /\ WizardKeeps

\* prompt_select_city and the arms of the match on its answer
prompt_select_city ==
    /\ wizard.pc = "select"
    /\ \/ \E e \in PromptFailures : WizardFails(e)
       \/ \E selection \in 0..Len(wizard.results) :
            wizard' =
                IF selection = Len(wizard.results)
                THEN [wizard EXCEPT !.last = Some(<<"SearchAgain">>),
                                    !.answered = @ \cup {"select"},
                                    !.results = <<>>,
                                    !.pc = "city_name"]
                ELSE LET selected == wizard.results[selection + 1] IN
                     [wizard EXCEPT
                        !.last = Some(<<"Selected", selection>>),
                        !.answered = @ \cup {"select"},
                        !.results = <<>>,
                        !.config = [latitude |-> selected.latitude,
                                    longitude |-> selected.longitude,
                                    auto |-> FALSE],
                        !.pc = "display"]
    /\ WizardKeeps

\* the prompts after the location, in the order run makes them; interact_opt
\* can be cancelled, the text input of the language cannot
LaterPrompts ==
    <<"display", "language", "hide", "temperature", "wind_speed",
      "precipitation", "hide_hud", "silent">>
Position(name) == CHOOSE i \in 1..Len(LaterPrompts) : LaterPrompts[i] = name
AfterPrompt(name) ==
    IF Position(name) = Len(LaterPrompts) THEN "finish"
    ELSE LaterPrompts[Position(name) + 1]

\* prompt_location_display .. prompt_silent: the fields they set are not
\* among those the config of the model holds
prompt_later ==
    /\ \E name \in {LaterPrompts[i] : i \in 1..Len(LaterPrompts)} :
        /\ wizard.pc = name
        /\ \/ \E e \in IF name = "language" THEN {PromptError} ELSE PromptFailures :
                WizardFails(e)
           \/ wizard' = [wizard EXCEPT !.answered = @ \cup {name},
                                       !.pc = AfterPrompt(name)]
    /\ WizardKeeps

\* Phase 3 without the validation
ValidateAndSaveUnvalidated ==
    /\ wizard.pc = "finish"
    /\ \/ wizard' = [wizard EXCEPT !.pc = "done", !.saves = @ + 1,
                                   !.file = FileHolding(wizard.config),
                                   !.result = Some(Ok(<<>>))]
       \/ \E left \in {wizard.file, FileTruncated} :
            wizard' = [wizard EXCEPT !.pc = "done", !.saves = @ + 1,
                                     !.file = left,
                                     !.result = Some(Err(<<"Config", <<"WriteError">>>>))]
    /\ WizardKeeps

\* Phase 3: validate, then save; a save that fails leaves the file as it was
\* or cut short
ValidateAndSave ==
    /\ wizard.pc = "finish"
    /\ IF validate(wizard.config) # ConfigOk
       THEN WizardFails(<<"Config", validate(wizard.config)[2]>>)
       ELSE \/ wizard' = [wizard EXCEPT !.pc = "done", !.saves = @ + 1,
                                        !.file = FileHolding(wizard.config),
                                        !.result = Some(Ok(<<>>))]
            \/ \E left \in {wizard.file, FileTruncated} :
                 wizard' = [wizard EXCEPT !.pc = "done", !.saves = @ + 1,
                                          !.file = left,
                                          !.result = Some(Err(<<"Config", <<"WriteError">>>>))]
    /\ WizardKeeps

ToolsIdle == geo = GeoNew /\ wizard = WizardNew
(***************************************************************************)
(* Specifications                                                          *)
(***************************************************************************)
\* the AppState methods, called in any order with any arguments
InitState ==
    /\ state = AppStateNew
    /\ AirplaneSystemNew(0, 0)
    /\ air_call = AirCallNone
    /\ AppIdle
    /\ SceneIdle
    /\ ConfigIdle
    /\ ToolsIdle

UpdateWeather ==
    /\ \E w \in WeatherData : state' = update_weather(state, w)
    /\ UNCHANGED <<airVars, appVars, sceneVars, configVars, toolVars>>
SetWeatherError ==
    /\ \E e \in FetchErrors : state' = set_weather_error(state, e)
    /\ UNCHANGED <<airVars, appVars, sceneVars, configVars, toolVars>>
UpdateLoadingAnimation ==
    /\ \E elapsed \in BOOLEAN : state' = update_loading_animation(state, elapsed)
    /\ UNCHANGED <<airVars, appVars, sceneVars, configVars, toolVars>>
UpdateCachedInfo ==
    /\ state' = update_cached_info(state)
    /\ UNCHANGED <<airVars, appVars, sceneVars, configVars, toolVars>>

NextState ==
    \/ UpdateWeather
    \/ SetWeatherError
    \/ UpdateLoadingAnimation
    \/ UpdateCachedInfo

SpecState == InitState /\ [][NextState]_vars

\* the airplane system, updated with any sequence of terminal sizes
InitAir ==
    /\ state = AppStateNew
    /\ \E w \in AirWidths, h \in AirHeights : AirplaneSystemNew(w, h)
    /\ air_call = AirCallNone
    /\ AppIdle
    /\ SceneIdle
    /\ ConfigIdle
    /\ ToolsIdle

Update ==
    /\ \E w \in AirWidths, h \in AirHeights, rp \in RandSpawn :
          \/ UpdateNoSpawn(w, h, rp)
          \/ \E ry \in RandU16, rs \in RandSpeed, rc \in RandU16 :
                 UpdateSpawn(w, h, rp, ry, rs, rc)
          \/ UpdatePanic(w, h, rp)
    /\ UNCHANGED <<state, appVars, sceneVars, configVars, toolVars>>

Render ==
    /\ AirRender
    /\ UNCHANGED <<state, appVars, sceneVars, configVars, toolVars>>

NextAir == Update \/ Render

SpecAir == InitAir /\ [][NextAir]_vars

\* WorldScene::new with any size, then render
InitScene ==
    /\ state = AppStateNew
    /\ AirplaneSystemNew(0, 0)
    /\ air_call = AirCallNone
    /\ pc = "idle"
    /\ run_result = None
    /\ cleanup_called = FALSE
    /\ exit_status = None
    /\ frame_ops = <<>>
    /\ term_error = None
    /\ renderer_size = StartSize
    /\ \E w \in SceneWidths, h \in SceneHeights : scene_size = <<w, h>>
    /\ channel = <<>>
    /\ fetch_pc = "absent"
    /\ fetch_result = None
    /\ ctrl_c = "unpolled"
    /\ intensities = AnimationManagerNew
    /\ SceneIdle
    /\ ConfigIdle
    /\ ToolsIdle

WorldSceneRenderCall ==
    /\ layout' = Some(WorldSceneRender(scene_size[1], scene_size[2]))
    /\ UNCHANGED <<state, airVars, appVars, configVars, toolVars>>

NextScene == WorldSceneRenderCall

SpecScene == InitScene /\ [][NextScene]_vars

\* a Config read from any file or built by default, in any environment, with
\* validate and apply_env_overrides called in any order
InitConfig ==
    /\ state = AppStateNew
    /\ AirplaneSystemNew(0, 0)
    /\ air_call = AirCallNone
    /\ AppIdle
    /\ SceneIdle
    /\ \E lat \in FileLatitudes, lon \in FileLongitudes, auto \in BOOLEAN :
           config = [latitude |-> lat, longitude |-> lon, auto |-> auto]
    /\ env \in Environments
    /\ config_call = ConfigCallNone
    /\ ToolsIdle

Validate ==
    /\ config_call' = [op |-> "validate", before |-> config, result |-> validate(config)]
    /\ UNCHANGED <<config, env, state, airVars, appVars, sceneVars, toolVars>>

ApplyEnvOverrides ==
    /\ config' = apply_env_overrides(config, env).config
    /\ config_call' = [op |-> "apply_env_overrides", before |-> config,
                       result |-> apply_env_overrides(config, env).result]
    /\ UNCHANGED <<env, state, airVars, appVars, sceneVars, toolVars>>

\* let config = Config::load() in the environment env: main loads the
\* configuration once, before any other use of it
Load ==
    /\ config_call = ConfigCallNone
    /\ \E file \in Files :
        LET loaded == load(file, env) IN
        /\ config' = IF loaded.result = ConfigOk THEN loaded.config ELSE config
        /\ config_call' = [op |-> "load", before |-> file, result |-> loaded.result]
    /\ UNCHANGED <<env, state, airVars, appVars, sceneVars, toolVars>>

NextConfig == Validate \/ ApplyEnvOverrides \/ Load

SpecConfig == InitConfig /\ [][NextConfig]_vars

\* detect_location_with_retry, with any outcome of each fetch_location
InitGeo ==
    /\ state = AppStateNew
    /\ AirplaneSystemNew(0, 0)
    /\ air_call = AirCallNone
    /\ AppIdle
    /\ SceneIdle
    /\ ConfigIdle
    /\ geo = GeoNew
    /\ wizard = WizardNew

NextGeo == FetchLocation \/ SleepDone

SpecGeo == InitGeo /\ [][NextGeo]_vars

\* onboard::run, started with anything at the config path, with any answer
\* to each prompt and any answer of the geocoding service
InitOnboard ==
    /\ state = AppStateNew
    /\ AirplaneSystemNew(0, 0)
    /\ air_call = AirCallNone
    /\ AppIdle
    /\ SceneIdle
    /\ ConfigIdle
    /\ geo = GeoNew
    /\ \E file \in Files : wizard = [WizardNew EXCEPT !.file = file, !.file0 = file]

NextOnboard ==
    \/ WizardStart
    \/ prompt_location_method
    \/ prompt_latitude
    \/ prompt_longitude
    \/ prompt_auto_location
    \/ prompt_city_name
    \/ SearchCities
    \/ prompt_select_city
    \/ prompt_later
    \/ ValidateAndSave

SpecOnboard == InitOnboard /\ [][NextOnboard]_vars

\* main from the select! on, with the fetch task and the interrupt signal
Init ==
    /\ \/ AppNewLive
       \/ \E c \in SimulatedConditions, night \in BOOLEAN : AppNewSimulated(c, night)
    /\ MainStart
    /\ AirplaneSystemNew(StartSize[1], StartSize[2])
    /\ air_call = AirCallNone
    /\ SceneIdle
    /\ ConfigIdle
    /\ ToolsIdle

MainThread ==
    \/ Recv
    \/ Clear
    \/ RenderBackground
    \/ SceneRender
    \/ RenderChimneySmoke
    \/ RenderForeground
    \/ RenderHud
    \/ Flush
    \/ PollEvent
    \/ EndIteration
    \/ Cleanup

FetchTask ==
    \/ FetchComplete
    \/ FetchSend
    \/ FetchSendClosed
    \/ FetchWake

Next == MainThread \/ FetchTask \/ Sigint

Spec == Init /\ [][Next]_vars

\* the main thread is an OS thread that keeps running: each of its steps
\* returns (event::poll after at most FRAME_DURATION); nothing is assumed of
\* the fetch task or of signals
FairSpec == Spec /\ WF_vars(MainThread)

(***************************************************************************)
(* Properties                                                              *)
(***************************************************************************)
Min(a, b) == IF a <= b THEN a ELSE b
Range(seq) == {seq[i] : i \in 1..Len(seq)}

\* C1: is_raining and is_thunderstorm are never both true; for a condition
\* that is both a thunderstorm and raining, is_thunderstorm is true and
\* is_raining is false.
C1_RainThunderExclusive ==
    /\ ~(state.weather_conditions.is_raining
         /\ state.weather_conditions.is_thunderstorm)
    /\ (/\ state.current_weather # None
        /\ CondIsThunderstorm(Unwrap(state.current_weather).condition)
        /\ CondIsRaining(Unwrap(state.current_weather).condition))
       => (/\ state.weather_conditions.is_thunderstorm
           /\ ~state.weather_conditions.is_raining)

C1_Witness ==
    /\ state.current_weather # None
    /\ CondIsThunderstorm(Unwrap(state.current_weather).condition)
    /\ CondIsRaining(Unwrap(state.current_weather).condition)
    /\ state.weather_conditions.is_thunderstorm
    /\ ~state.weather_conditions.is_raining

\* C2: after every update(width, height), every plane still stored has
\* x < width and y < height.
C2_PlanesInsideBounds ==
    air_call.op = "update" =>
        \A i \in 1..Len(planes) :
            /\ planes[i].x < terminal_width * Tenths
            /\ planes[i].y < terminal_height

\* C3: the trail of every plane holds at most 8 entries; it holds the x of
\* each of the plane's latest updates, the newest at index 0.
C3_TrailBounded ==
    \A i \in 1..Len(planes) :
        LET p == planes[i] IN
        /\ Len(p.trail_positions) <= 8
        /\ Len(p.trail_positions) = Min(8, p.x \div p.speed)
        /\ \A k \in 1..Len(p.trail_positions) :
               p.trail_positions[k] = p.x - (k - 1) * p.speed

C3_Witness ==
    \E i \in 1..Len(planes) :
        /\ Len(planes[i].trail_positions) = 8
        /\ planes[i].x > 8 * planes[i].speed
        /\ planes[i].trail_positions[1] = planes[i].x

\* C4: an update whose cooldown is 0 and whose draw is below the spawn
\* probability adds exactly one plane, at x = 0, y in [0, height/4), with an
\* empty trail; any other update adds none.
C4_SpawnExactlyOne ==
    [][air_call'.op = "update" =>
         LET survivors ==
                 {i \in 1..Len(planes) :
                      planes[i].x + planes[i].speed < terminal_width' * Tenths}
             n == Cardinality(survivors)
         IN IF air_call'.cooldown = 0 /\ air_call'.draw < 3
            THEN /\ Len(planes') = n + 1
                 /\ planes'[n + 1].x = 0
                 /\ planes'[n + 1].y >= 0
                 /\ planes'[n + 1].y < terminal_height' \div 4
                 /\ planes'[n + 1].trail_positions = <<>>
            ELSE Len(planes') = n]_vars

C6_FrameReachesFlush ==
    (pc = "recv") ~> (pc \in {"poll", "cleanup", "exited", "killed"})

C6_Witness ==
    /\ pc = "poll"
    /\ fetch_pc = "send"
    /\ Len(channel) = ChannelCapacity

\* C7: the start of an iteration that finds no message, or a fetch error,
\* leaves current_weather and weather_conditions as they were; with no
\* message the whole AppState is unchanged, and an error changes only
\* weather_error and weather_info_needs_update.
C7_KeepsLastSnapshot ==
    [][(pc = "recv" /\ pc' = "clear"
        /\ (channel = <<>> \/ Head(channel)[1] = "Err"))
       => /\ state'.current_weather = state.current_weather
          /\ state'.weather_conditions = state.weather_conditions
          /\ state'.loading_frame = state.loading_frame
          /\ state'.cached_weather_info = state.cached_weather_info
          /\ channel = <<>> => state' = state
          /\ channel # <<>> =>
                 /\ state'.weather_error # None
                 /\ state'.weather_info_needs_update]_vars

C7_Witness ==
    /\ pc = "clear"
    /\ state.weather_error # None
    /\ state.current_weather # None

\* C8: a terminal failure in any call of a frame ends run with that error,
\* with no call after the failing one; and whenever main exits after run
\* returned, by error or by quit, renderer.cleanup has been called, and it
\* is called only after run returned.
C8_ErrorEndsRunThenCleanup ==
    /\ term_error # None =>
           /\ pc \in {"cleanup", "exited"}
           /\ run_result = Some(<<"Err", Unwrap(term_error)>>)
           /\ IF Unwrap(term_error) \in Range(RenderOrder)
              THEN frame_ops # <<>> /\ frame_ops[Len(frame_ops)] = Unwrap(term_error)
              ELSE frame_ops = RenderOrder
    /\ pc = "exited" =>
           /\ cleanup_called
           /\ run_result # None
           /\ Unwrap(run_result)[1] = "Err" => exit_status = Some(1)
    /\ cleanup_called => pc = "exited"

C8_Witness ==
    /\ pc = "exited"
    /\ cleanup_called
    /\ term_error = Some("flush")

\* C9: a quit key or an interrupt signal ends the loop only after the
\* current frame has been flushed, and after the quit key or the signal no
\* further clear, render pass or flush happens.
QuitRequested ==
    \/ run_result = Some(<<"Ok">>)
    \/ ctrl_c = "signalled"
    \/ pc = "killed"

C9_QuitEndsLoopAfterFlush ==
    [][/\ QuitRequested => frame_ops' = frame_ops
       /\ (pc \in LoopPcs /\ pc' \notin LoopPcs /\ QuitRequested')
              => frame_ops' = RenderOrder]_vars

\* C10: at every scene.render the scene's size is the renderer's size, and
\* the two differ only between a resize and the size update that ends the
\* same iteration, or once the loop has ended.
C10_SceneSizeFollowsRenderer ==
    /\ pc = "scene" => scene_size = renderer_size
    /\ scene_size # renderer_size => pc \in {"size", "cleanup", "exited", "killed"}

C10_Witness ==
    /\ pc = "scene"
    /\ renderer_size # StartSize
    /\ scene_size = renderer_size

\* the weather data the state holds, when it holds any
HasWeather == state.current_weather # None
CurrentWeather == Unwrap(state.current_weather)

\* C11: should_show_sun is true only by day and with a Clear or PartlyCloudy
\* condition; it is false at night, for every other condition, and while no
\* weather data has arrived.
C11_SunOnlyOnClearDay ==
    /\ should_show_sun(state) =>
           /\ HasWeather
           /\ CurrentWeather.is_day
           /\ state.weather_conditions.is_day
           /\ CurrentWeather.condition \in {"Clear", "PartlyCloudy"}
    /\ ~HasWeather => ~should_show_sun(state)
    /\ (HasWeather /\ ~CurrentWeather.is_day) => ~should_show_sun(state)
    /\ (HasWeather /\ CurrentWeather.condition \notin {"Clear", "PartlyCloudy"})
           => ~should_show_sun(state)

\* a clear night has arrived: the condition would allow the sun, the hour not
C11_Witness ==
    /\ HasWeather
    /\ ~CurrentWeather.is_day
    /\ CurrentWeather.condition = "Clear"
    /\ ~should_show_sun(state)

\* C12 as stated: whenever the snapshot says day, no rain and no snow (the
\* default snapshot included), the sun is shown and no precipitation flag is set.
C12_SunWheneverDryDay ==
    (/\ state.weather_conditions.is_day
     /\ ~state.weather_conditions.is_raining
     /\ ~state.weather_conditions.is_snowing)
        => /\ should_show_sun(state)
           /\ ~state.weather_conditions.is_thunderstorm

\* C12 amended: with a day snapshot without rain or snow, the sun is shown
\* exactly when weather data has arrived and its condition is Clear or
\* PartlyCloudy, and then no precipitation flag is set; with the default
\* snapshot, before any weather data, the sun is not shown.
C12_SunOnDryDayNeedsClearData ==
    (/\ state.weather_conditions.is_day
     /\ ~state.weather_conditions.is_raining
     /\ ~state.weather_conditions.is_snowing)
        => /\ should_show_sun(state)
                <=> (HasWeather /\ CurrentWeather.condition \in {"Clear", "PartlyCloudy"})
           /\ should_show_sun(state) => ~state.weather_conditions.is_thunderstorm
           /\ (state.weather_conditions = WeatherConditionsDefault /\ ~HasWeather)
                => ~should_show_sun(state)

\* a partly cloudy day has arrived: a dry day snapshot with the sun shown
C12_Witness ==
    /\ HasWeather
    /\ CurrentWeather.condition = "PartlyCloudy"
    /\ state.weather_conditions.is_day
    /\ ~state.weather_conditions.is_raining
    /\ ~state.weather_conditions.is_snowing
    /\ should_show_sun(state)

\* C13: should_show_fireflies is true only at night with a Clear or
\* PartlyCloudy condition, a temperature above 15 and none of is_raining,
\* is_snowing, is_thunderstorm; the sun and the fireflies are never both shown.
C13_FirefliesOnlyOnWarmClearNight ==
    /\ should_show_fireflies(state) =>
           /\ HasWeather
           /\ ~CurrentWeather.is_day
           /\ ~state.weather_conditions.is_day
           /\ CurrentWeather.condition \in {"Clear", "PartlyCloudy"}
           /\ CurrentWeather.temperature > 15
           /\ ~state.weather_conditions.is_raining
           /\ ~state.weather_conditions.is_snowing
           /\ ~state.weather_conditions.is_thunderstorm
    /\ ~(should_show_sun(state) /\ should_show_fireflies(state))

\* a warm clear night has arrived and the fireflies are shown
C13_Witness ==
    /\ HasWeather
    /\ ~CurrentWeather.is_day
    /\ CurrentWeather.temperature > 15
    /\ should_show_fireflies(state)

\* the layout of the last render, and the path cells of its ground row y: the
\* columns x of 0..width-1 with is_path, which all lie from path_start to
\* path_end
Rendered == layout # None
Layout == Unwrap(layout)
PathCells(y) ==
    {x \in Layout.ground.rows[y].path_start
              ..Min(Layout.ground.width - 1, Layout.ground.rows[y].path_end) :
        is_path(x, Layout.ground.rows[y])}
Max(a, b) == IF a >= b THEN a ELSE b

\* C15 as stated: for every terminal size the four coordinates are the plain
\* differences and sum: horizon_y = height - GROUND_HEIGHT,
\* house_x = width/2 - WIDTH/2, house_y = horizon_y - HEIGHT,
\* path_center = house_x + DOOR_OFFSET.
C15_LayoutPlainDifferences ==
    Rendered =>
        /\ Layout.horizon_y = Layout.height - 8
        /\ Layout.house_x = (Layout.width \div 2) - 32
        /\ Layout.house_y = Layout.horizon_y - 13
        /\ Layout.path_center = Layout.house_x + 18

\* C15 amended: the three differences are clamped at 0; from 64 columns and 21
\* rows on no clamp applies, the house is centered on column width/2 and its
\* 13 rows end on the row above horizon_y; at 80x24 it starts at column 8 and
\* is centered on column 40.
C15_LayoutClampedDifferences ==
    Rendered =>
        /\ Layout.horizon_y = Max(0, Layout.height - 8)
        /\ Layout.house_x = Max(0, (Layout.width \div 2) - 32)
        /\ Layout.house_y = Max(0, Layout.horizon_y - 13)
        /\ Layout.path_center = Layout.house_x + 18
        /\ (Layout.width >= 64 /\ Layout.height >= 21) =>
               /\ Layout.house_x + 32 = Layout.width \div 2
               /\ Layout.house_y + 13 = Layout.horizon_y
               /\ Layout.horizon_y + 8 = Layout.height
        /\ (Layout.width = 80 /\ Layout.height = 24) =>
               /\ Layout.house_x = 8
               /\ Layout.house_x + 32 = 40
               /\ Layout.horizon_y = 16
               /\ Layout.house_y = 3
               /\ Layout.path_center = 26

\* the scene was rendered at 80x24
C15_Witness ==
    /\ Rendered
    /\ Layout.width = 80
    /\ Layout.height = 24
    /\ Layout.house_x = 8

\* every u16 addition of the last render
LayoutAdds ==
    {Layout.door_add} \cup Layout.ground.adds \cup Layout.house.adds
        \cup Layout.decorations.adds
\* every coordinate of the last render
LayoutCoordinates ==
    {Layout.horizon_y, Layout.house_x, Layout.house_y, Layout.path_center,
     Layout.decorations.tree_x, Layout.decorations.tree_y,
     Layout.decorations.fence_x, Layout.decorations.fence_y,
     Layout.decorations.mailbox_x, Layout.decorations.mailbox_y,
     Layout.decorations.bush_x, Layout.decorations.bush_y}

\* C16: for every width and height of the u16 range no addition of the layout
\* exceeds 65535, every coordinate and every row and column index is within
\* 0..65535, and a subtraction whose result would be negative gives 0.
C16_LayoutWithinU16 ==
    Rendered =>
        /\ \A pair \in LayoutAdds : pair[1] + pair[2] <= 65535
        /\ \A c \in LayoutCoordinates : c >= 0 /\ c <= 65535
        /\ Layout.height < 8 => Layout.horizon_y = 0
        /\ Layout.width \div 2 < 32 => Layout.house_x = 0
        /\ Layout.horizon_y < 13 => Layout.house_y = 0
        /\ Layout.house_x < 20 => Layout.decorations.tree_x = 0
        /\ Layout.decorations.tree_x < 10 => Layout.decorations.mailbox_x = 0
        /\ Layout.horizon_y < 5 => Layout.decorations.tree_y = 0
        /\ Layout.horizon_y < 3 => Layout.decorations.mailbox_y = 0
        /\ Layout.horizon_y < 2 => Layout.decorations.fence_y = 0
        /\ Layout.horizon_y < 1 => Layout.decorations.bush_y = 0

\* a scene of 65535 rows and another smaller than the ground strip
C16_Witness ==
    /\ Rendered
    /\ Layout.height = 65535
    /\ Layout.width = 65535
    /\ <<65527, 7>> \in Layout.ground.adds

\* a row whose path the screen edges do not clip
Unclipped(y) ==
    /\ Layout.path_center >= Layout.ground.rows[y].path_width \div 2
    /\ Layout.ground.rows[y].path_end < Layout.ground.width

\* C19 as stated: for every row y from 1 to 7 whose path is not clipped, the
\* row has one path cell more than the row above it.
C19_PathGrowsOnePerRow ==
    Rendered =>
        \A y \in 1..7 :
            (Unclipped(y) /\ Unclipped(y - 1)) =>
                Cardinality(PathCells(y)) = Cardinality(PathCells(y - 1)) + 1

\* C19 amended: path_width = 4 + y grows by one per row, but the path of an
\* unclipped row y holds the 2 * ((4 + y) div 2) + 1 cells around path_center
\* (5, 5, 7, 7, 9, 9, 11, 11): two more than the row above on even rows, as
\* many on odd rows.
C19_PathGrowsTwoEverySecondRow ==
    Rendered =>
        \A y \in 0..7 :
            /\ Layout.ground.rows[y].path_width = 4 + y
            /\ Unclipped(y) =>
                   /\ Cardinality(PathCells(y)) = 2 * ((4 + y) \div 2) + 1
                   /\ \A x \in PathCells(y) :
                          2 * Layout.path_center - x \in PathCells(y)
            /\ (y >= 1 /\ Unclipped(y) /\ Unclipped(y - 1)) =>
                   Cardinality(PathCells(y)) - Cardinality(PathCells(y - 1))
                       = IF y % 2 = 0 THEN 2 ELSE 0

\* the scene was rendered at 80x24, where no row of the path is clipped
C19_Witness ==
    /\ Rendered
    /\ Layout.width = 80
    /\ \A y \in 0..7 : Unclipped(y)
    /\ Cardinality(PathCells(7)) = 11

\* C17: validate returns InvalidLatitude exactly when latitude is below -90 or
\* above 90, otherwise InvalidLongitude exactly when longitude is below -180 or
\* above 180, otherwise Ok; -90, 90, -180 and 180 are accepted, and the config
\* is left as it was.
C17_ValidateRanges ==
    config_call.op = "validate" =>
        LET lat == config_call.before.latitude
            lon == config_call.before.longitude
            lat_out == lat < -9000 \/ lat > 9000
            lon_out == lon < -18000 \/ lon > 18000
        IN  /\ lat_out <=> config_call.result = <<"Err", <<"InvalidLatitude", lat>>>>
            /\ (~lat_out /\ lon_out)
                   <=> config_call.result = <<"Err", <<"InvalidLongitude", lon>>>>
            /\ (~lat_out /\ ~lon_out) <=> config_call.result = <<"Ok">>
            /\ (lat \in {-9000, 9000} /\ lon \in {-18000, 18000})
                   => config_call.result = <<"Ok">>
            /\ config = config_call.before

\* validate accepted a config on the limits 90 and -180
C17_Witness ==
    /\ config_call.op = "validate"
    /\ config_call.before.latitude = 9000
    /\ config_call.before.longitude = -18000
    /\ config_call.result = <<"Ok">>

\* a variable of the environment is set, and its value parses as a number
IsSet(name) == env[name] # None
Parses(name) ==
    /\ IsSet(name)
    /\ Unwrap(env[name]).unicode
    /\ ParseF64(Trim(Unwrap(env[name]).text)) # None
Parsed(name) == Unwrap(ParseF64(Trim(Unwrap(env[name]).text)))
IsInvalidEnvVar(result) ==
    /\ result[1] = "Err"
    /\ result[2][1] = "InvalidEnvVar"

\* C18 as stated: after apply_env_overrides each variable that is set and
\* parses has given its value to its coordinate and auto is false, each
\* variable that is not set has left its coordinate unchanged, and a set
\* variable that does not parse has made the call return InvalidEnvVar.
C18_EachVariableApplied ==
    [][config_call'.op = "apply_env_overrides" =>
          /\ Parses(ENV_LATITUDE) =>
                 config'.latitude = Parsed(ENV_LATITUDE) /\ ~config'.auto
          /\ Parses(ENV_LONGITUDE) =>
                 config'.longitude = Parsed(ENV_LONGITUDE) /\ ~config'.auto
          /\ ~IsSet(ENV_LATITUDE) => config'.latitude = config.latitude
          /\ ~IsSet(ENV_LONGITUDE) => config'.longitude = config.longitude
          /\ (\E name \in {ENV_LATITUDE, ENV_LONGITUDE} :
                  IsSet(name) /\ ~Parses(name))
                 => IsInvalidEnvVar(config_call'.result)]_vars

\* a variable has a text: it is set and its value is valid Unicode
HasText(name) == IsSet(name) /\ Unwrap(env[name]).unicode

\* C18 amended: the variables are handled latitude first and the call stops at
\* the first text that does not parse, returning InvalidEnvVar for it; a
\* variable that is not set or whose value is not valid Unicode leaves its
\* coordinate unchanged; a text that parses, reached before any failure, gives
\* its value to its coordinate and makes auto false.
C18_VariablesAppliedUntilFirstFailure ==
    [][config_call'.op = "apply_env_overrides" =>
          LET lat_fails == HasText(ENV_LATITUDE) /\ ~Parses(ENV_LATITUDE)
              lon_fails == HasText(ENV_LONGITUDE) /\ ~Parses(ENV_LONGITUDE)
          IN  /\ lat_fails =>
                     /\ config_call'.result
                            = <<"Err", <<"InvalidEnvVar", "WEATHR_LATITUDE",
                                         Unwrap(env[ENV_LATITUDE]).text>>>>
                     /\ config' = config
              /\ (~lat_fails /\ lon_fails) =>
                     /\ config_call'.result
                            = <<"Err", <<"InvalidEnvVar", "WEATHR_LONGITUDE",
                                         Unwrap(env[ENV_LONGITUDE]).text>>>>
                     /\ config'.longitude = config.longitude
              /\ (~lat_fails /\ ~lon_fails) => config_call'.result = <<"Ok">>
              /\ Parses(ENV_LATITUDE) =>
                     config'.latitude = Parsed(ENV_LATITUDE) /\ ~config'.auto
              /\ (~lat_fails /\ Parses(ENV_LONGITUDE)) =>
                     config'.longitude = Parsed(ENV_LONGITUDE) /\ ~config'.auto
              /\ ~HasText(ENV_LATITUDE) => config'.latitude = config.latitude
              /\ ~HasText(ENV_LONGITUDE) => config'.longitude = config.longitude
              /\ (~Parses(ENV_LATITUDE) /\ (lat_fails \/ ~Parses(ENV_LONGITUDE)))
                     => config'.auto = config.auto]_vars

\* both variables were set to " -91 " and 48.85, and the call applied them to
\* a config that had auto set
C18_Witness ==
    /\ config_call.op = "apply_env_overrides"
    /\ config_call.before.auto
    /\ config_call.result = <<"Ok">>
    /\ config.latitude = -9100
    /\ config.longitude = 4885
    /\ ~config.auto

KeptByStep ==
    LET width == terminal_width'
    IN  SelectSeq(planes, LAMBDA p : p.x + p.speed < width * 10)

\* C21: each update lowers the spawn cooldown by 1 and never below 0; a spawn
\* resets it to a value in [400, 599]; at least 400 update calls separate two
\* consecutive spawns, and an update spawns at most one plane.
C21_CooldownSeparatesSpawns ==
    [][air_call'.op = "update" =>
         /\ Len(planes') \in {Len(KeptByStep), Len(KeptByStep) + 1}
         /\ spawn_cooldown' >= 0
         /\ IF Len(planes') = Len(KeptByStep) + 1
            THEN /\ spawn_cooldown' >= 400
                 /\ spawn_cooldown' <= 599
                 /\ spawn_cooldown <= 1
                 /\ updates_since_spawn + 1 >= 400
            ELSE spawn_cooldown' = Max(0, spawn_cooldown - 1)]_vars

\* a plane was spawned by this update while the plane spawned 400 or more
\* updates earlier is still flying
C21_Witness ==
    /\ air_call.op = "update"
    /\ Len(planes) = 2
    /\ updates_since_spawn = 0
    /\ spawn_cooldown >= 400

\* C22: every update moves each stored plane to the right by its speed, which
\* is at least 0.3, and keeps it exactly when its new x is below the width
\* passed to the call; so a plane that was moved is never stored at or beyond
\* the width, and it is removed after at most width / 0.3 updates.
C22_PlanesAdvanceUntilCulled ==
    [][air_call'.op = "update" =>
         LET width == terminal_width'
             gone == {i \in 1..Len(planes) : planes[i].x + planes[i].speed >= width * 10}
         IN  /\ \A i \in 1..Len(planes) : planes[i].speed >= 3
             /\ Len(planes') >= Len(planes) - Cardinality(gone)
             /\ Len(planes') <= Len(planes) - Cardinality(gone) + 1
             /\ \A i \in 1..Len(planes) \ gone :
                    LET k == i - Cardinality({j \in gone : j < i})
                    IN  /\ planes'[k].x = planes[i].x + planes[i].speed
                        /\ planes'[k].x > planes[i].x
                        /\ width * 10 - planes'[k].x < width * 10 - planes[i].x
                        /\ width * 10 - planes'[k].x > 0
             /\ \A k \in 1..Len(planes') :
                    planes'[k].x > 0 => planes'[k].x < width * 10]_vars

\* a plane spawned fewer than 400 updates ago has flown out and was removed
C22_Witness ==
    /\ air_call.op = "update"
    /\ planes = <<>>
    /\ updates_since_spawn >= 1
    /\ updates_since_spawn < 400

\* C23 as a state predicate: no update call has ended in a fault.
C23_UpdateNeverFaults == ~air_call.panicked

\* the trail dots drawn by the last render, of all planes
DrawnDots ==
    UNION {Range(air_call.drawn[k].trail) : k \in 1..Len(air_call.drawn)}

\* C24 as stated: the trail-index bands 0-1, 2-3, 4-5 and 6-7 each get a color
\* different from every other band.
C24_BandColorsAllDistinct ==
    air_call.op = "render" =>
        \A d1 \in DrawnDots, d2 \in DrawnDots :
            (d1.i \div 2 # d2.i \div 2) => d1.color # d2.color

\* C24 amended: the bands 0-1, 2-3 and 4-5 are White, Grey and DarkGrey, each
\* different from the two others, all drawn as '.'; the band 6-7 is DarkGrey
\* like the band before it and is drawn with the smaller dot.
C24_ThreeColorsLastBandByGlyph ==
    air_call.op = "render" =>
        /\ \A d \in DrawnDots :
               /\ d.i \in 0..7
               /\ d.color = <<"White", "Grey", "DarkGrey", "DarkGrey">>[d.i \div 2 + 1]
               /\ d.ch = IF d.i >= 6 THEN "middle dot" ELSE "dot"
        /\ \A d1 \in DrawnDots, d2 \in DrawnDots :
               (d1.i \div 2 # d2.i \div 2 /\ d1.i <= 5 /\ d2.i <= 5)
                   => d1.color # d2.color
        /\ \A d1 \in DrawnDots, d2 \in DrawnDots :
               (d1.i \div 2 # d2.i \div 2) => (d1.color # d2.color \/ d1.ch # d2.ch)

\* a plane with a full trail of eight dots was drawn
C24_Witness ==
    /\ air_call.op = "render"
    /\ \E k \in 1..Len(air_call.drawn) : Len(air_call.drawn[k].trail) = 8

\* C25 as a state predicate: every decoration the last render drew is at its
\* fixed offset (tree house_x - 20, fence house_x + 64 + 2, mailbox
\* house_x - 30, bush path_center - 10), and a decoration whose offset lies
\* left of column 0 is not drawn.
C25_DecorationsAtFixedOffsets ==
    Rendered =>
        LET d == Layout.decorations
        IN  /\ d.tree_drawn => d.tree_x = Layout.house_x - 20
            /\ d.fence_drawn => d.fence_x = Layout.house_x + 64 + 2
            /\ d.mailbox_drawn => d.mailbox_x = Layout.house_x - 30
            /\ d.bush_drawn => d.bush_x = Layout.path_center - 10
            /\ Layout.house_x - 20 < 0 => ~d.tree_drawn
            /\ Layout.house_x - 30 < 0 => ~d.mailbox_drawn
            /\ Layout.path_center - 10 < 0 => ~d.bush_drawn

\* C26 as a state predicate: whenever the state holds a weather snapshot, the
\* intensities held by the animation manager are those of its condition.
C26_IntensitiesFollowWeather ==
    HasWeather =>
        intensities = [rain |-> rain_intensity(CurrentWeather.condition),
                       snow |-> snow_intensity(CurrentWeather.condition)]


(***************************************************************************)
(* C27: the HUD text after update_cached_info                              *)
(***************************************************************************)
ErrorText == state'.cached_weather_info = <<Unwrap(state'.weather_error)>>
WeatherText ==
    state'.cached_weather_info =
        <<"Weather: ", get_condition_text(state'), " | Temp: ",
          Unwrap(state'.current_weather).temperature>>
LoadingText ==
    state'.cached_weather_info =
        <<"Weather: Loading... ", LoadingChars[state'.loading_frame + 1]>>
\* the step is a call of update_weather: with the snapshot the new state holds
IsUpdateWeather ==
    /\ state'.current_weather # None
    /\ Unwrap(state'.current_weather) \in WeatherData
    /\ state' = update_weather(state, Unwrap(state'.current_weather))

\* C27: in every step of any sequence of update_weather, set_weather_error,
\* update_loading_animation and update_cached_info calls: (1) a call of
\* update_cached_info leaves weather_info_needs_update false; (2) whenever the
\* flag is false the cached text is the text of the current state, which is
\* the error text if weather_error is set (with or without weather data),
\* else the weather text if data exists, else the loading text; (3)
\* update_weather clears weather_error, and (4) nothing else clears it.
C27_CachedInfoShowsCurrentState ==
    [][/\ state' = update_cached_info(state)
            => ~state'.weather_info_needs_update
       /\ ~state'.weather_info_needs_update
            => /\ state'.weather_error # None => ErrorText
               /\ state'.weather_error = None /\ state'.current_weather # None
                    => WeatherText
               /\ state'.weather_error = None /\ state'.current_weather = None
                    => LoadingText
       /\ IsUpdateWeather => state'.weather_error = None
       /\ state.weather_error # None /\ state'.weather_error = None
            => IsUpdateWeather]_vars

\* update_cached_info has run while both an error and weather data are held,
\* and the HUD shows the error
C27_Witness ==
    /\ ~state.weather_info_needs_update
    /\ state.weather_error # None
    /\ state.current_weather # None
    /\ state.cached_weather_info = <<Unwrap(state.weather_error)>>


(***************************************************************************)
(* C28: what Config::load returns                                          *)
(***************************************************************************)
Loaded == config_call.op = "load" /\ config_call.result = ConfigOk

\* C28: every configuration Config::load returns in Ok lies in the ranges
\* validate accepts, latitude in [-90, 90] and longitude in [-180, 180],
\* with or without a config file and with or without environment overrides.
C28_LoadedConfigIsValid ==
    Loaded =>
        /\ MinLatitude <= config.latitude /\ config.latitude <= MaxLatitude
        /\ MinLongitude <= config.longitude /\ config.longitude <= MaxLongitude


(***************************************************************************)
(* C30: the retry loop of detect_location_with_retry                       *)
(***************************************************************************)
Attempts == Len(geo.outcomes)
IsRetryableError(out) ==
    out[1] = "Err" /\ out[2][1] = "Unreachable" /\ out[2][2].retryable
WaitsBefore(n) == SubSeq(<<500, 1000>>, 1, n)

\* C30: detect_location_with_retry makes at most 3 attempts; an attempt is
\* followed by another only if it failed with a retryable network error; a
\* success or any other error is returned at once, as is the error of the
\* third attempt; the waits between attempts are 500 ms and then 1000 ms, and
\* there is no wait after the last attempt.
C30_RetryAtMostThreeTimes ==
    /\ Attempts <= 3
    /\ \A i \in 1..(Attempts - 1) : IsRetryableError(geo.outcomes[i])
    /\ (Attempts >= 1 /\ ~IsRetryableError(geo.outcomes[Attempts]))
            => geo.pc = "done"
    /\ Attempts = 3 => geo.pc = "done"
    /\ geo.pc = "done"
            => /\ Attempts >= 1
               /\ geo.result = Some(geo.outcomes[Attempts])
               /\ geo.slept = WaitsBefore(Attempts - 1)
    /\ geo.pc = "sleep"
            => /\ Attempts < 3
               /\ geo.result = None
               /\ geo.slept = WaitsBefore(Attempts)
    /\ geo.pc = "fetch"
            => /\ geo.result = None
               /\ geo.slept = WaitsBefore(Attempts)

\* three attempts failed with retryable errors, the last with another error
\* than the second; its error was returned, after waits of 500 and 1000 ms
C30_Witness ==
    /\ geo.pc = "done"
    /\ Attempts = 3
    /\ IsRetryableError(geo.outcomes[3])
    /\ geo.outcomes[3] # geo.outcomes[2]
    /\ geo.result = Some(geo.outcomes[3])
    /\ geo.slept = <<500, 1000>>


(***************************************************************************)
(* C29: what the setup wizard writes                                       *)
(***************************************************************************)
\* the prompts run makes for a location method, besides the method itself
MethodPrompts(method) ==
    CASE method = "Coordinates" -> {"latitude", "longitude", "auto"}
      [] method = "CitySearch" -> {"city_name"}
      [] OTHER -> {}
AllPrompts(w) ==
    {"method"} \cup MethodPrompts(Unwrap(w.method))
        \cup {"display", "language", "hide", "temperature", "wind_speed",
              "precipitation", "hide_hud", "silent"}
InRange(cfg) ==
    /\ -9000 <= cfg.latitude /\ cfg.latitude <= 9000
    /\ -18000 <= cfg.longitude /\ cfg.longitude <= 18000
\* run has returned the error of a prompt or of the validation
StoppedEarly(w) ==
    /\ w.result # None
    /\ Unwrap(w.result)[1] = "Err"
    /\ LET e == Unwrap(w.result)[2] IN
       \/ e[1] \in {"Cancelled", "PromptError"}
       \/ e[1] = "Config" /\ e[2][1] \in {"InvalidLatitude", "InvalidLongitude"}
EmptyAnswer(last) ==
    last \in {Some(<<"Body", None>>), Some(<<"Body", Some(<<>>)>>)}

\* C29: in every step of onboard::run, (1) Config::save has been called at
\* most once, and if it has, every prompt of the run had returned a value and
\* the config was within the ranges of validate; (2) when a prompt was
\* cancelled or failed, or the validation failed, run has returned an error,
\* no save was made and the file is as it was; (3) after a search that found
\* nothing, and after the answer "search again", the city name is asked for
\* again; (4) after any other search error the config is as it was before
\* the search and run goes on.
C29_WritesOnceAfterValidation ==
    [][/\ wizard'.saves <= 1
       /\ wizard'.saves = 1
            => /\ wizard.pc = "finish"
               /\ AllPrompts(wizard') \subseteq wizard'.answered
               /\ InRange(wizard'.config)
       /\ wizard'.file # wizard'.file0 => wizard'.saves = 1
       /\ StoppedEarly(wizard')
            => /\ wizard'.pc = "done"
               /\ wizard'.saves = 0
               /\ wizard'.file = wizard'.file0
       /\ (wizard.pc = "search" /\ EmptyAnswer(wizard'.last))
            => wizard'.pc = "city_name" /\ wizard'.config = wizard.config
       /\ (wizard.pc = "select" /\ wizard'.last = Some(<<"SearchAgain">>))
            => wizard'.pc = "city_name" /\ wizard'.config = wizard.config
       /\ (wizard.pc = "search" /\ wizard'.last = Some(<<"GeocodingError">>))
            => /\ wizard'.config = wizard.config
               /\ wizard'.pc = "display"
               /\ wizard'.result = None]_vars

\* the wizard searched for a city, a place was selected, every later prompt
\* was answered and the config was written over what the path held
C29_Witness ==
    /\ wizard.pc = "done"
    /\ wizard.result = Some(Ok(<<>>))
    /\ wizard.saves = 1
    /\ wizard.method = Some("CitySearch")
    /\ "select" \in wizard.answered
    /\ wizard.file = FileHolding(wizard.config)
    /\ wizard.file # wizard.file0

====
